---- MODULE Spec2Model ----
(***************************************************************************)
(* Model of the object-oriented ideal Diesel cycle simulator               *)
(* (diesel-cycle-thermodynamic-simulator/Diesel_Cycle_simulator_v2.py) and *)
(* of the procedural script (Diesel_Cycle_simulator.py).                   *)
(*                                                                         *)
(* Numbers are exact rationals <<n, d>> in lowest terms with d > 0; the    *)
(* non-finite floating point values are <<0, 0>> (nan), <<1, 0>> (inf) and *)
(* <<-1, 0>> (-inf).  A division of Python scalars by zero raises          *)
(* ZeroDivisionError; a numpy division by zero yields nan or inf.          *)
(***************************************************************************)
EXTENDS Integers, Sequences, FiniteSets, TLC

VARIABLES sim, cycle_data, last, script

vars == <<sim, cycle_data, last, script>>

---------------------------------------------------------------------------
(* Bounds of the inputs the operations are called with. *)

MaxLength == 2

MaxRatio == 3

MaxT3 == 6

MaxPoints == 3

---------------------------------------------------------------------------
(* The values the operations are called with. *)

(* Bores: zero and a positive diameter. *)
Bores == {0, 2}

(* stroke and connecting_rod_length *)
Lengths == 0..MaxLength

Ratios == 0..MaxRatio

Pressures == {3}

InitialTemperatures == {1, 2}

PeakTemperatures == 1..MaxT3

(* Specific heat ratios with an integer value, for which x ** gamma is exact. *)
Gammas == {2, 3}

PointCounts == -1..MaxPoints

---------------------------------------------------------------------------
(* Rational arithmetic standing for Python / numpy floating point.  Each   *)
(* operation F evaluates its operands once and applies FOf to the values.  *)

Abs(n) == IF n < 0 THEN -n ELSE n

RECURSIVE Gcd(_, _)
Gcd(a, b) == IF b = 0 THEN a ELSE Gcd(b, a % b)

RatOf(n, d) ==
    LET g == Gcd(Abs(n), Abs(d))
        s == IF d < 0 THEN -1 ELSE 1
    IN  <<(s * n) \div g, (s * d) \div g>>

Rat(n, d) ==
    CHOOSE m \in {RatOf(p[1], p[2]) : p \in {<<n, d>>}} : TRUE

Float(n) == <<n, 1>>

NaN == <<0, 0>>

Sign(a) == IF a[1] < 0 THEN -1 ELSE IF a[1] > 0 THEN 1 ELSE 0

IsFinite(a) == a[2] # 0

NegOf(a) == <<-a[1], a[2]>>

Neg(a) ==
    CHOOSE m \in {NegOf(p[1]) : p \in {<<a>>}} : TRUE

MulOf(a, b) ==
    IF IsFinite(a) /\ IsFinite(b)
    THEN LET g1 == Gcd(Abs(a[1]), b[2])
             g2 == Gcd(Abs(b[1]), a[2])
         IN  IF a[1] = 0 \/ b[1] = 0 THEN Float(0)
             ELSE <<(a[1] \div g1) * (b[1] \div g2), (a[2] \div g2) * (b[2] \div g1)>>
    ELSE <<Sign(a) * Sign(b), 0>>

Mul(a, b) ==
    CHOOSE m \in {MulOf(p[1], p[2]) : p \in {<<a, b>>}} : TRUE

AddOf(a, b) ==
    IF IsFinite(a) /\ IsFinite(b)
    THEN LET g == Gcd(a[2], b[2])
         IN  Rat(a[1] * (b[2] \div g) + b[1] * (a[2] \div g), (a[2] \div g) * b[2])
    ELSE IF a = NaN \/ b = NaN THEN NaN
    ELSE IF ~IsFinite(a) /\ ~IsFinite(b) THEN (IF a = b THEN a ELSE NaN)
    ELSE IF IsFinite(a) THEN b ELSE a

Add(a, b) ==
    CHOOSE m \in {AddOf(p[1], p[2]) : p \in {<<a, b>>}} : TRUE

Sub(a, b) == Add(a, Neg(b))

(* Python true division of two finite scalars, b # 0. *)
DivOf(a, b) == Mul(a, Rat(b[2], b[1]))

Div(a, b) ==
    CHOOSE m \in {DivOf(p[1], p[2]) : p \in {<<a, b>>}} : TRUE

(* numpy elementwise division: x/0 is inf or nan, never an exception. *)
NpDivOf(a, b) ==
    IF IsFinite(a) /\ IsFinite(b)
    THEN (IF b[1] = 0 THEN <<Sign(a), 0>> ELSE Div(a, b))
    ELSE IF IsFinite(a) /\ b # NaN THEN Float(0)
    ELSE IF IsFinite(b) /\ a # NaN
         THEN (IF b[1] = 0 THEN a ELSE <<Sign(a) * Sign(b), 0>>)
    ELSE NaN

NpDiv(a, b) ==
    CHOOSE m \in {NpDivOf(p[1], p[2]) : p \in {<<a, b>>}} : TRUE

(* x ** k for an integer exponent k >= 0. *)
RECURSIVE PowOf(_, _)
PowOf(a, k) == IF k = 0 THEN Float(1) ELSE Mul(a, PowOf(a, k - 1))

Pow(a, k) ==
    CHOOSE m \in {PowOf(p[1], p[2]) : p \in {<<a, k>>}} : TRUE

(* a < b and a <= b; a comparison with nan is false. *)
LtOf(a, b) ==
    /\ IsFinite(a)
    /\ IsFinite(b)
    /\ LET g == Gcd(a[2], b[2]) IN a[1] * (b[2] \div g) < b[1] * (a[2] \div g)

Lt(a, b) ==
    CHOOSE m \in {LtOf(p[1], p[2]) : p \in {<<a, b>>}} : TRUE

LeOf(a, b) ==
    /\ IsFinite(a)
    /\ IsFinite(b)
    /\ LET g == Gcd(a[2], b[2]) IN a[1] * (b[2] \div g) <= b[1] * (a[2] \div g)

Le(a, b) ==
    CHOOSE m \in {LeOf(p[1], p[2]) : p \in {<<a, b>>}} : TRUE

(* Largest k in lo..hi with k*k <= n. *)
RECURSIVE ISqrtIn(_, _, _)
ISqrtIn(n, lo, hi) ==
    IF lo = hi THEN lo
    ELSE LET mid == (lo + hi + 1) \div 2
         IN  IF mid * mid <= n THEN ISqrtIn(n, mid, hi) ELSE ISqrtIn(n, lo, mid - 1)

(* np.sqrt keeps finitely many digits: the root is rounded down to a       *)
(* multiple of 1/SqrtScale, and is exact for the squares of such multiples. *)
SqrtScale == 10 * 10

NpSqrtOf(a) ==
    IF ~IsFinite(a) THEN (IF a = <<1, 0>> THEN a ELSE NaN)
    ELSE IF a[1] < 0 THEN NaN
    ELSE LET n == (a[1] * SqrtScale * SqrtScale) \div a[2]
         IN  Rat(ISqrtIn(n, 0, 40000), SqrtScale)

NpSqrt(a) ==
    CHOOSE m \in {NpSqrtOf(p[1]) : p \in {<<a>>}} : TRUE

(* np.pi, a finite-precision rational approximation of pi. *)
NpPi == Rat(22, 7)

(* Crank angles 0 = Angles[1] < ... < Angles[7] = pi with rational cosine  *)
(* and sine, as <<cos, sin>>.                                              *)
Angles ==
    << <<Float(1), Float(0)>>,
       <<Rat(4, 5), Rat(3, 5)>>,
       <<Rat(3, 5), Rat(4, 5)>>,
       <<Float(0), Float(1)>>,
       <<Rat(-3, 5), Rat(4, 5)>>,
       <<Rat(-4, 5), Rat(3, 5)>>,
       <<Float(-1), Float(0)>> >>

NpCos(theta) == Angles[theta][1]

NpSin(theta) == Angles[theta][2]

AngleZero == 1

AnglePi == Len(Angles)

---------------------------------------------------------------------------
(* DieselCycleSimulator *)

NoCall == [op |-> "none", args |-> <<>>, error |-> "", result |-> <<>>]

Call(op, args, error, result) ==
    [op |-> op, args |-> args, error |-> error, result |-> result]

(* Variant of __init__ that divides the swept volume by compression_ratio. *)
NewSimulator_ClearanceOverRatio(bore, stroke, connecting_rod_length, compression_ratio) ==
    LET swept_volume == Mul(Mul(Div(NpPi, Float(4)), Pow(Float(bore), 2)), Float(stroke))
        clearance_volume == Div(swept_volume, Float(compression_ratio))
        total_volume == Add(swept_volume, clearance_volume)
    IN  [bore |-> Float(bore),
         stroke |-> Float(stroke),
         connecting_rod_length |-> Float(connecting_rod_length),
         compression_ratio |-> Float(compression_ratio),
         swept_volume |-> swept_volume,
         clearance_volume |-> clearance_volume,
         total_volume |-> total_volume]

(* __init__: the fields of the instance; compression_ratio # 1. *)
NewSimulator(bore, stroke, connecting_rod_length, compression_ratio) ==
    LET swept_volume == Mul(Mul(Div(NpPi, Float(4)), Pow(Float(bore), 2)), Float(stroke))
        clearance_volume == Div(swept_volume, Float(compression_ratio - 1))
        total_volume == Add(swept_volume, clearance_volume)
    IN  [bore |-> Float(bore),
         stroke |-> Float(stroke),
         connecting_rod_length |-> Float(connecting_rod_length),
         compression_ratio |-> Float(compression_ratio),
         swept_volume |-> swept_volume,
         clearance_volume |-> clearance_volume,
         total_volume |-> total_volume]

(* DieselCycleSimulator(bore, stroke, connecting_rod_length, compression_ratio) *)
Construct(bore, stroke, connecting_rod_length, compression_ratio) ==
    /\ sim = <<>>
    /\ IF compression_ratio - 1 = 0
       THEN /\ sim' = sim
            /\ last' = Call("__init__",
                            <<bore, stroke, connecting_rod_length, compression_ratio>>,
                            "ZeroDivisionError", <<>>)
       ELSE /\ sim' = <<NewSimulator(bore, stroke, connecting_rod_length,
                                     compression_ratio)>>
            /\ last' = Call("__init__",
                            <<bore, stroke, connecting_rod_length, compression_ratio>>,
                            "", <<>>)
    /\ cycle_data' = <<>>
    /\ UNCHANGED script

(* Variant of instantaneous_volume with cosine and sine exchanged. *)
instantaneous_volume_SwappedTrig(self, crank_angle) ==
    LET R == Div(self.stroke, Float(2))
        x == Add(Mul(R, NpSin(crank_angle)),
                 NpSqrt(Sub(Pow(self.connecting_rod_length, 2),
                            Pow(Mul(R, NpCos(crank_angle)), 2))))
        h == Sub(Add(self.connecting_rod_length, R), x)
    IN  Add(self.clearance_volume,
            Mul(Mul(Div(NpPi, Float(4)), Pow(self.bore, 2)), h))

(* Variant of instantaneous_volume whose crank radius is the whole stroke. *)
instantaneous_volume_RadiusIsStroke(self, crank_angle) ==
    LET R == self.stroke
        x == Add(Mul(R, NpCos(crank_angle)),
                 NpSqrt(Sub(Pow(self.connecting_rod_length, 2),
                            Pow(Mul(R, NpSin(crank_angle)), 2))))
        h == Sub(Add(self.connecting_rod_length, R), x)
    IN  Add(self.clearance_volume,
            Mul(Mul(Div(NpPi, Float(4)), Pow(self.bore, 2)), h))

(* instantaneous_volume(self, crank_angle) *)
instantaneous_volume(self, crank_angle) ==
    LET R == Div(self.stroke, Float(2))
        x == Add(Mul(R, NpCos(crank_angle)),
                 NpSqrt(Sub(Pow(self.connecting_rod_length, 2),
                            Pow(Mul(R, NpSin(crank_angle)), 2))))
        h == Sub(Add(self.connecting_rod_length, R), x)
    IN  Add(self.clearance_volume,
            Mul(Mul(Div(NpPi, Float(4)), Pow(self.bore, 2)), h))

InstantaneousVolume(crank_angle) ==
    /\ sim # <<>>
    /\ last' = Call("instantaneous_volume", <<crank_angle>>, "",
                    <<instantaneous_volume(sim[1], crank_angle)>>)
    /\ UNCHANGED <<sim, cycle_data, script>>

(* Variant of np.linspace that leaves the stop value out (endpoint=False). *)
linspace_EndpointExcluded(start, stop, num) ==
    IF num = 1 THEN <<start>>
    ELSE LET step == NpDiv(Sub(stop, start), Float(num))
         IN  [i \in 1..num |->
                 Add(Mul(Float(i - 1), step), start)]

(* np.linspace(start, stop, num): num samples, both endpoints included. *)
linspace(start, stop, num) ==
    IF num = 1 THEN <<start>>
    ELSE LET step == NpDiv(Sub(stop, start), Float(num - 1))
         IN  [i \in 1..num |->
                 IF i = num THEN stop ELSE Add(Mul(Float(i - 1), step), start)]

(* np.full(n, value) and np.full_like(array, value) *)
full(num, value) == [i \in 1..num |-> value]

(* Variant of ideal_diesel_cycle with v3 = v2 * T2 / T3. *)
ideal_diesel_cycle_InvertedTemperatureRatio(self, p1, T1, T3, gamma) ==
    LET v1 == self.total_volume
        v2 == self.clearance_volume
        p2 == Mul(p1, Pow(self.compression_ratio, gamma))
        T2 == Mul(T1, Pow(self.compression_ratio, gamma - 1))
        p3 == p2
    IN  IF T2[1] = 0 THEN [error |-> "ZeroDivisionError", value |-> <<>>]
        ELSE LET v3 == Div(Mul(v2, T2), T3)
                 v4 == v1
             IN  IF v4[1] = 0 THEN [error |-> "ZeroDivisionError", value |-> <<>>]
                 ELSE LET p4 == Mul(p3, Pow(Div(v3, v4), gamma))
                          T4 == Mul(T3, Pow(Div(v3, v4), gamma - 1))
                      IN  [error |-> "",
                           value |-> <<[states |-> <<[p |-> p1, v |-> v1, T |-> T1],
                                                     [p |-> p2, v |-> v2, T |-> T2],
                                                     [p |-> p3, v |-> v3, T |-> T3],
                                                     [p |-> p4, v |-> v4, T |-> T4]>>,
                                        gamma |-> gamma,
                                        compression_ratio |-> self.compression_ratio]>>]

(* ideal_diesel_cycle(self, p1, T1, T3, gamma): the outcome of the call. *)
ideal_diesel_cycle(self, p1, T1, T3, gamma) ==
    LET v1 == self.total_volume
        v2 == self.clearance_volume
        p2 == Mul(p1, Pow(self.compression_ratio, gamma))
        T2 == Mul(T1, Pow(self.compression_ratio, gamma - 1))
        p3 == p2
    IN  IF T2[1] = 0 THEN [error |-> "ZeroDivisionError", value |-> <<>>]
        ELSE LET v3 == Div(Mul(v2, T3), T2)
                 v4 == v1
             IN  IF v4[1] = 0 THEN [error |-> "ZeroDivisionError", value |-> <<>>]
                 ELSE LET p4 == Mul(p3, Pow(Div(v3, v4), gamma))
                          T4 == Mul(T3, Pow(Div(v3, v4), gamma - 1))
                      IN  [error |-> "",
                           value |-> <<[states |-> <<[p |-> p1, v |-> v1, T |-> T1],
                                                     [p |-> p2, v |-> v2, T |-> T2],
                                                     [p |-> p3, v |-> v3, T |-> T3],
                                                     [p |-> p4, v |-> v4, T |-> T4]>>,
                                        gamma |-> gamma,
                                        compression_ratio |-> self.compression_ratio]>>]

IdealDieselCycle(p1, T1, T3, gamma) ==
    /\ sim # <<>>
    /\ \E out \in {ideal_diesel_cycle(sim[1], Float(p1), Float(T1), Float(T3), gamma)} :
          /\ last' = Call("ideal_diesel_cycle", <<p1, T1, T3, gamma>>,
                          out.error, out.value)
          /\ cycle_data' = IF out.error = "" THEN out.value ELSE cycle_data
    /\ UNCHANGED <<sim, script>>

(* Variant of the repeated call that hands back the earlier dictionary,    *)
(* overwritten with the new states.                                        *)
IdealDieselCycleAgain_ReusesStateSet(p1, T1, T3, gamma) ==
    /\ sim # <<>>
    /\ cycle_data # <<>>
    /\ \E out \in {ideal_diesel_cycle(sim[1], Float(p1), Float(T1), Float(T3), gamma)} :
          /\ last' = Call("ideal_diesel_cycle", <<p1, T1, T3, gamma>>,
                          out.error, out.value)
          /\ cycle_data' = IF out.error = "" THEN out.value ELSE cycle_data
    /\ UNCHANGED <<sim, script>>

(* other = sim.ideal_diesel_cycle(...) while the caller keeps the state    *)
(* set of an earlier call in cycle_data: the call builds a new dictionary. *)
IdealDieselCycleAgain(p1, T1, T3, gamma) ==
    /\ sim # <<>>
    /\ cycle_data # <<>>
    /\ \E out \in {ideal_diesel_cycle(sim[1], Float(p1), Float(T1), Float(T3), gamma)} :
          last' = Call("ideal_diesel_cycle", <<p1, T1, T3, gamma>>,
                       out.error, out.value)
    /\ UNCHANGED <<sim, cycle_data, script>>

(* Variant of generate_pv_diagram with the expansion pressure p3 * (v / v3)^gamma. *)
generate_pv_diagram_InvertedExpansionRatio(cycle, n_points) ==
    LET states == cycle.states
        gamma == cycle.gamma
    IN  IF n_points < 0 THEN [error |-> "ValueError", value |-> <<>>]
        ELSE LET v_12 == linspace(states[1].v, states[2].v, n_points)
                 p_12 == [i \in 1..n_points |->
                             Mul(states[1].p, Pow(NpDiv(states[1].v, v_12[i]), gamma))]
                 v_23 == linspace(states[2].v, states[3].v, n_points)
                 p_23 == full(Len(v_23), states[2].p)
                 v_34 == linspace(states[3].v, states[4].v, n_points)
                 p_34 == [i \in 1..n_points |->
                             Mul(states[3].p, Pow(NpDiv(v_34[i], states[3].v), gamma))]
                 v_41 == full(n_points, states[4].v)
                 p_41 == linspace(states[4].p, states[1].p, n_points)
             IN  [error |-> "",
                  value |-> <<[compression |-> <<v_12, p_12>>,
                               heat_addition |-> <<v_23, p_23>>,
                               expansion |-> <<v_34, p_34>>,
                               heat_rejection |-> <<v_41, p_41>>]>>]

(* Variant of generate_pv_diagram with the compression pressure p2 * (v1 / v)^gamma. *)
generate_pv_diagram_CompressionFromState2(cycle, n_points) ==
    LET states == cycle.states
        gamma == cycle.gamma
    IN  IF n_points < 0 THEN [error |-> "ValueError", value |-> <<>>]
        ELSE LET v_12 == linspace(states[1].v, states[2].v, n_points)
                 p_12 == [i \in 1..n_points |->
                             Mul(states[2].p, Pow(NpDiv(states[1].v, v_12[i]), gamma))]
                 v_23 == linspace(states[2].v, states[3].v, n_points)
                 p_23 == full(Len(v_23), states[2].p)
                 v_34 == linspace(states[3].v, states[4].v, n_points)
                 p_34 == [i \in 1..n_points |->
                             Mul(states[3].p, Pow(NpDiv(states[3].v, v_34[i]), gamma))]
                 v_41 == full(n_points, states[4].v)
                 p_41 == linspace(states[4].p, states[1].p, n_points)
             IN  [error |-> "",
                  value |-> <<[compression |-> <<v_12, p_12>>,
                               heat_addition |-> <<v_23, p_23>>,
                               expansion |-> <<v_34, p_34>>,
                               heat_rejection |-> <<v_41, p_41>>]>>]

(* generate_pv_diagram(self, cycle_data, n_points): the outcome of the call. *)
generate_pv_diagram(cycle, n_points) ==
    LET states == cycle.states
        gamma == cycle.gamma
    IN  IF n_points < 0 THEN [error |-> "ValueError", value |-> <<>>]
        ELSE LET v_12 == linspace(states[1].v, states[2].v, n_points)
                 p_12 == [i \in 1..n_points |->
                             Mul(states[1].p, Pow(NpDiv(states[1].v, v_12[i]), gamma))]
                 v_23 == linspace(states[2].v, states[3].v, n_points)
                 p_23 == full(Len(v_23), states[2].p)
                 v_34 == linspace(states[3].v, states[4].v, n_points)
                 p_34 == [i \in 1..n_points |->
                             Mul(states[3].p, Pow(NpDiv(states[3].v, v_34[i]), gamma))]
                 v_41 == full(n_points, states[4].v)
                 p_41 == linspace(states[4].p, states[1].p, n_points)
             IN  [error |-> "",
                  value |-> <<[compression |-> <<v_12, p_12>>,
                               heat_addition |-> <<v_23, p_23>>,
                               expansion |-> <<v_34, p_34>>,
                               heat_rejection |-> <<v_41, p_41>>]>>]

GeneratePvDiagram(n_points) ==
    /\ sim # <<>>
    /\ cycle_data # <<>>
    /\ \E out \in {generate_pv_diagram(cycle_data[1], n_points)} :
          last' = Call("generate_pv_diagram", <<n_points>>, out.error, out.value)
    /\ UNCHANGED <<sim, cycle_data, script>>

(* calculate_efficiency(self, cycle_data): the outcome of the call. *)
calculate_efficiency(self, cycle) ==
    LET states == cycle.states
        gamma == cycle.gamma
    IN  IF states[2].v[1] = 0 THEN [error |-> "ZeroDivisionError", value |-> <<>>]
        ELSE LET rho == Div(states[3].v, states[2].v)
                 rpow == Pow(self.compression_ratio, gamma - 1)
                 denom == Mul(Float(gamma), Sub(rho, Float(1)))
             IN  IF rpow[1] = 0 \/ denom[1] = 0
                 THEN [error |-> "ZeroDivisionError", value |-> <<>>]
                 ELSE LET efficiency ==
                              Sub(Float(1),
                                  Div(Mul(Div(Float(1), rpow),
                                          Sub(Pow(rho, gamma), Float(1))),
                                      denom))
                      IN  [error |-> "", value |-> <<efficiency>>]

CalculateEfficiency ==
    /\ sim # <<>>
    /\ cycle_data # <<>>
    /\ \E out \in {calculate_efficiency(sim[1], cycle_data[1])} :
          last' = Call("calculate_efficiency", <<>>, out.error, out.value)
    /\ UNCHANGED <<sim, cycle_data, script>>

---------------------------------------------------------------------------

Init ==
    /\ sim = <<>>
    /\ cycle_data = <<>>
    /\ last = NoCall
    /\ script = <<>>

Next ==
    \/ \E bore \in Bores, stroke \in Lengths, connecting_rod_length \in Lengths,
          compression_ratio \in Ratios :
          Construct(bore, stroke, connecting_rod_length, compression_ratio)
    \/ \E crank_angle \in 1..Len(Angles) : InstantaneousVolume(crank_angle)
    \/ \E p1 \in Pressures, T1 \in InitialTemperatures, T3 \in PeakTemperatures,
          gamma \in Gammas :
          IdealDieselCycle(p1, T1, T3, gamma)
    \/ \E n_points \in PointCounts : GeneratePvDiagram(n_points)
    \/ CalculateEfficiency

Spec == Init /\ [][Next]_vars

(* One engine size, every operation, and repeated cycle evaluations whose  *)
(* earlier result the caller keeps.                                        *)
NextFrame ==
    \/ \E bore \in Bores, compression_ratio \in Ratios :
          Construct(bore, MaxLength, MaxLength, compression_ratio)
    \/ \E crank_angle \in 1..Len(Angles) : InstantaneousVolume(crank_angle)
    \/ \E p1 \in Pressures, T1 \in InitialTemperatures, T3 \in PeakTemperatures,
          gamma \in Gammas :
          cycle_data = <<>> /\ IdealDieselCycle(p1, T1, T3, gamma)
    \/ \E p1 \in Pressures, T1 \in InitialTemperatures, T3 \in PeakTemperatures,
          gamma \in Gammas :
          IdealDieselCycleAgain(p1, T1, T3, gamma)
    \/ \E n_points \in PointCounts : GeneratePvDiagram(n_points)
    \/ CalculateEfficiency

SpecFrame == Init /\ [][NextFrame]_vars

---------------------------------------------------------------------------
(* The procedural script. *)

(* Engine inputs d, s and l of the script. *)
ScriptBore == Rat(1, 10)

ScriptStroke == Rat(1, 10)

ScriptRod == Rat(3, 20)

(* Engines <<d, s, l>> the script is run with: its own, and those of the    *)
(* simulator's bounds with a positive bore, a stroke of 1 or 2 and a rod   *)
(* of 2.                                                                   *)
ScriptEngines ==
    {<<ScriptBore, ScriptStroke, ScriptRod>>}
        \cup {<<Float(d), Float(s), Float(2)>> : d \in Bores \ {0}, s \in {1, 2}}

(* Compression ratios the script runs with: Vs/(r-1) and the state points  *)
(* are computed without an error.                                          *)
ScriptRatios == {r \in Ratios : r > 1}

(* The width of the window of the search, 0.001. *)
SearchTolerance == Rat(1, 1000)

(* volume(d, s, l, r, theta), r # 1; l is not used. *)
volume(d, s, l, r, theta) ==
    LET Vs == Mul(Mul(Div(NpPi, Float(4)), Pow(d, 2)), s)
        Vc == Div(Vs, Sub(r, Float(1)))
        term1 == Div(Float(1), Sub(r, Float(1)))
        term2 == Sub(Add(Float(1), Div(Float(2), s)), NpCos(theta))
        term3 == NpSqrt(Add(Pow(Div(Float(2), s), 2), Pow(NpSin(theta), 2)))
        V == Mul(Vs, Add(term1, Mul(Rat(1, 2), Sub(term2, term3))))
    IN  V

(* The script after its engine and thermodynamic inputs are assigned. *)
ScriptInputs(d, s, l, r, p1, t1, gamma, t3) ==
    [pc |-> "inputs",
     d |-> d, s |-> s, l |-> l, r |-> r,
     p1 |-> p1, t1 |-> t1, gamma |-> gamma, t3 |-> t3,
     points |-> <<>>, theta |-> AngleZero, v_theta |-> <<>>,
     examined |-> <<>>, exit |-> ""]

(* Variant of the state points with v3 = v2 * t2/t3. *)
StatePointValues_InvertedTemperatureRatio(d, s, r, p1, t1, gamma, t3) ==
    LET Vs == Mul(Mul(Div(NpPi, Float(4)), Pow(d, 2)), s)
        Vc == Div(Vs, Sub(r, Float(1)))
        v1 == Add(Vs, Vc)
        v2 == Vc
        v4 == v1
        p2 == Mul(p1, Pow(r, gamma))
        t2 == Mul(t1, Pow(r, gamma - 1))
        p3 == p2
        v3 == Div(Mul(v2, t2), t3)
        p4 == Mul(p3, Pow(Div(v3, v4), gamma))
    IN  [Vs |-> Vs, Vc |-> Vc, v1 |-> v1, v2 |-> v2, v4 |-> v4,
         p2 |-> p2, t2 |-> t2, p3 |-> p3, v3 |-> v3, p4 |-> p4]

(* The swept and clearance volume and the state points of the script. *)
StatePointValues(d, s, r, p1, t1, gamma, t3) ==
    LET Vs == Mul(Mul(Div(NpPi, Float(4)), Pow(d, 2)), s)
        Vc == Div(Vs, Sub(r, Float(1)))
        v1 == Add(Vs, Vc)
        v2 == Vc
        v4 == v1
        p2 == Mul(p1, Pow(r, gamma))
        t2 == Mul(t1, Pow(r, gamma - 1))
        p3 == p2
        v3 == Div(Mul(v2, t3), t2)
        p4 == Mul(p3, Pow(Div(v3, v4), gamma))
    IN  [Vs |-> Vs, Vc |-> Vc, v1 |-> v1, v2 |-> v2, v4 |-> v4,
         p2 |-> p2, t2 |-> t2, p3 |-> p3, v3 |-> v3, p4 |-> p4]

(* The script computes its state points and sets theta = 0. *)
StatePoints ==
    /\ script # <<>>
    /\ script[1].pc = "inputs"
    /\ script' = <<[script[1] EXCEPT
                      !.pc = "search",
                      !.points = <<StatePointValues(script[1].d, script[1].s,
                                                    Float(script[1].r),
                                                    Float(script[1].p1),
                                                    Float(script[1].t1),
                                                    script[1].gamma,
                                                    Float(script[1].t3))>>,
                      !.theta = AngleZero]>>
    /\ UNCHANGED <<sim, cycle_data, last>>

(* Variant of the iteration whose window has no lower end. *)
SearchStep_NoLowerEnd ==
    /\ script # <<>>
    /\ script[1].pc = "search"
    /\ script[1].theta < AnglePi
    /\ \E theta \in {script[1].theta + 1} :
       \E v_theta \in {volume(script[1].d, script[1].s, script[1].l,
                               Float(script[1].r), theta)} :
       \E break \in {Lt(Sub(v_theta, script[1].points[1].v3), SearchTolerance)} :
          script' = <<[script[1] EXCEPT
                         !.theta = theta,
                         !.v_theta = <<v_theta>>,
                         !.examined = Append(@, <<theta, v_theta>>),
                         !.pc = IF break THEN "done" ELSE "search",
                         !.exit = IF break THEN "break" ELSE ""]>>
    /\ UNCHANGED <<sim, cycle_data, last>>

(* One iteration of the search loop: theta < pi holds, theta advances to   *)
(* the next angle, the volume there is computed and tested against the     *)
(* window above v3.                                                        *)
SearchStep ==
    /\ script # <<>>
    /\ script[1].pc = "search"
    /\ script[1].theta < AnglePi
    /\ \E theta \in {script[1].theta + 1} :
       \E v_theta \in {volume(script[1].d, script[1].s, script[1].l,
                               Float(script[1].r), theta)} :
       \E break \in {/\ Lt(Float(0), Sub(v_theta, script[1].points[1].v3))
                     /\ Lt(Sub(v_theta, script[1].points[1].v3), SearchTolerance)} :
          script' = <<[script[1] EXCEPT
                         !.theta = theta,
                         !.v_theta = <<v_theta>>,
                         !.examined = Append(@, <<theta, v_theta>>),
                         !.pc = IF break THEN "done" ELSE "search",
                         !.exit = IF break THEN "break" ELSE ""]>>
    /\ UNCHANGED <<sim, cycle_data, last>>

(* The loop condition theta < pi fails. *)
SearchExit ==
    /\ script # <<>>
    /\ script[1].pc = "search"
    /\ ~(script[1].theta < AnglePi)
    /\ script' = <<[script[1] EXCEPT !.pc = "done", !.exit = "condition"]>>
    /\ UNCHANGED <<sim, cycle_data, last>>

InitScript ==
    /\ sim = <<>>
    /\ cycle_data = <<>>
    /\ last = NoCall
    /\ \E engine \in ScriptEngines, r \in ScriptRatios, p1 \in Pressures,
          t1 \in InitialTemperatures, gamma \in Gammas, t3 \in PeakTemperatures :
          script = <<ScriptInputs(engine[1], engine[2], engine[3],
                                  r, p1, t1, gamma, t3)>>

NextSearch ==
    \/ StatePoints
    \/ SearchStep
    \/ SearchExit

(* The script is one sequential program: it takes its next step whenever   *)
(* it has one.                                                             *)
SpecSearch == InitScript /\ [][NextSearch]_vars /\ WF_vars(NextSearch)

(* The script up to its state points, and the simulator constructed and    *)
(* called with the inputs of the script.                                   *)
NextAgree ==
    \/ StatePoints
    \/ \E bore \in Bores, stroke \in Lengths, connecting_rod_length \in Lengths :
          /\ <<Float(bore), Float(stroke), Float(connecting_rod_length)>>
                = <<script[1].d, script[1].s, script[1].l>>
          /\ Construct(bore, stroke, connecting_rod_length, script[1].r)
    \/ IdealDieselCycle(script[1].p1, script[1].t1, script[1].t3, script[1].gamma)
    \/ \E crank_angle \in 1..Len(Angles) : InstantaneousVolume(crank_angle)

SpecAgree == InitScript /\ [][NextAgree]_vars

---------------------------------------------------------------------------
(* Vocabulary of the properties. *)

Self == sim[1]

Cycle == cycle_data[1]

Zero == Float(0)

One == Float(1)

CrankRadius(self) == Div(self.stroke, Float(2))

PositiveGeometry(self) ==
    /\ Lt(Zero, self.bore)
    /\ Lt(Zero, self.stroke)
    /\ Lt(Zero, self.connecting_rod_length)

RodLongEnough(self) == Lt(CrankRadius(self), self.connecting_rod_length)

ConsistentGeometry(self) ==
    /\ PositiveGeometry(self)
    /\ RodLongEnough(self)
    /\ Lt(One, self.compression_ratio)

Called(op) == last.op = op

Returned(op) == last.op = op /\ last.error = ""

Raised(op) == last.op = op /\ last.error # "" /\ last.result = <<>>

(* T2 of the call ideal_diesel_cycle(p1, T1, T3, gamma) recorded in last. *)
CallT2 == Mul(Float(last.args[2]), Pow(Self.compression_ratio, last.args[4] - 1))

CutoffRatio(cycle) == Div(cycle.states[3].v, cycle.states[2].v)

---------------------------------------------------------------------------
(* C1: ideal_diesel_cycle rejects invalid operating conditions: whenever   *)
(* T3 <= T2 = T1 * compression_ratio^(gamma-1) the call ends in an error   *)
(* and returns no state set, and no returned state set has a cut-off ratio *)
(* v3/v2 <= 1.                                                             *)
C1_InvalidConditionsRejected ==
    (sim # <<>> /\ ConsistentGeometry(Self))
       => /\ (Called("ideal_diesel_cycle") /\ Le(Float(last.args[3]), CallT2))
                => Raised("ideal_diesel_cycle")
          /\ cycle_data # <<>> => Lt(One, CutoffRatio(Cycle))

(* C2: constructing a simulator with an inconsistent geometry (rod <=      *)
(* stroke/2, a non-positive bore, stroke or rod, compression_ratio <= 1)   *)
(* reports an error at construction: no such instance exists, and          *)
(* instantaneous_volume is never evaluated with rod < R*sin(theta).        *)
C2_InconsistentGeometryRejected ==
    /\ sim # <<>> => ConsistentGeometry(Self)
    /\ Called("instantaneous_volume")
          => ~Lt(Self.connecting_rod_length,
                 Mul(CrankRadius(Self), NpSin(last.args[1])))

(* C3: generate_pv_diagram fails with an invalid-argument error for every  *)
(* n_points < 2 and returns the four curves only when n_points >= 2.       *)
C3_TooFewPointsRejected ==
    (Called("generate_pv_diagram") /\ ConsistentGeometry(Self))
       => IF last.args[1] < 2
          THEN Raised("generate_pv_diagram")
          ELSE Returned("generate_pv_diagram") /\ Len(last.result) = 1

(* C4: calculate_efficiency never ends in an error or nan when the cut-off *)
(* ratio is 1 (T3 = T2): it returns the analytic limit 1 - 1/r^(gamma-1).  *)
C4_UnityCutoffHandled ==
    (Called("calculate_efficiency") /\ ConsistentGeometry(Self)
        /\ CutoffRatio(Cycle) = One)
       => /\ Returned("calculate_efficiency")
          /\ last.result
                = <<Sub(One, Div(One, Pow(Self.compression_ratio, Cycle.gamma - 1)))>>

(* C5: for positive bore and stroke and compression_ratio > 1 the         *)
(* simulator satisfies total_volume / clearance_volume = compression_ratio *)
(* with swept_volume = (pi/4)*bore^2*stroke, clearance_volume =            *)
(* swept_volume/(compression_ratio - 1) and total_volume = swept_volume +  *)
(* clearance_volume, in the state after construction and after every       *)
(* sequence of calls of the four operations.                               *)
C5_VolumeRatioInvariant ==
    (sim # <<>> /\ Lt(Zero, Self.bore) /\ Lt(Zero, Self.stroke)
        /\ Lt(One, Self.compression_ratio))
       => /\ Self.swept_volume
                = Mul(Div(NpPi, Float(4)), Mul(Mul(Self.bore, Self.bore), Self.stroke))
          /\ Mul(Self.clearance_volume, Sub(Self.compression_ratio, One))
                = Self.swept_volume
          /\ Sub(Self.total_volume, Self.clearance_volume) = Self.swept_volume
          /\ Self.clearance_volume # Zero
          /\ Div(Self.total_volume, Self.clearance_volume) = Self.compression_ratio

C5_Witness ==
    /\ sim # <<>>
    /\ ConsistentGeometry(Self)
    /\ cycle_data # <<>>
    /\ Returned("calculate_efficiency")

(* C6: for connecting_rod_length > stroke/2, instantaneous_volume(0) is    *)
(* clearance_volume and instantaneous_volume(pi) is total_volume.          *)
C6_DeadCentreVolumes ==
    (Called("instantaneous_volume") /\ RodLongEnough(Self))
       => /\ last.args[1] = AngleZero => last.result = <<Self.clearance_volume>>
          /\ last.args[1] = AnglePi => last.result = <<Self.total_volume>>

C6_Witness ==
    /\ Returned("instantaneous_volume")
    /\ last.args[1] = AnglePi
    /\ ConsistentGeometry(Self)
    /\ last.result = <<Self.total_volume>>
    /\ Lt(Self.clearance_volume, Self.total_volume)

(* C7: for connecting_rod_length > stroke/2 and crank angles a <= b in     *)
(* [0, pi], instantaneous_volume(a) <= instantaneous_volume(b); every      *)
(* volume on that interval lies between clearance_volume and total_volume. *)
C7_VolumeWithinBounds ==
    (Called("instantaneous_volume") /\ RodLongEnough(Self))
       => /\ Le(Self.clearance_volume, last.result[1])
          /\ Le(last.result[1], Self.total_volume)

C7_VolumeStep ==
    (/\ Called("instantaneous_volume")
     /\ RodLongEnough(Self)
     /\ last'.op = "instantaneous_volume"
     /\ last.args[1] <= last'.args[1])
       => Le(last.result[1], last'.result[1])

(* C7: the volume stays within [clearance_volume, total_volume] and two    *)
(* consecutive instantaneous_volume calls at angles a <= b return volumes  *)
(* in the same order.                                                      *)
C7_VolumeMonotonic == [](C7_VolumeWithinBounds) /\ [][C7_VolumeStep]_vars

C7_Witness ==
    /\ Returned("instantaneous_volume")
    /\ last.args[1] \notin {AngleZero, AnglePi}
    /\ ConsistentGeometry(Self)
    /\ Lt(Self.clearance_volume, last.result[1])
    /\ Lt(last.result[1], Self.total_volume)

(* C8: for p1 > 0, T1 > 0, gamma > 1 and compression ratio r > 1 the state *)
(* set returned by ideal_diesel_cycle has state 1 = (p1, total_volume,     *)
(* T1), v2 = clearance_volume, p2 = p1*r^gamma, T2 = T1*r^(gamma-1),       *)
(* p3 = p2, T3 the input, v3/v2 = T3/T2, v4 = v1, p4 = p3*(v3/v4)^gamma,   *)
(* T4 = T3*(v3/v4)^(gamma-1), and records gamma and r unchanged.           *)
C8_StateFormulas ==
    (/\ Returned("ideal_diesel_cycle")
     /\ Lt(One, Self.compression_ratio)
     /\ last.args[1] > 0 /\ last.args[2] > 0 /\ last.args[4] > 1)
       => LET p1 == Float(last.args[1])
              T1 == Float(last.args[2])
              T3 == Float(last.args[3])
              gamma == last.args[4]
              r == Self.compression_ratio
              c == last.result[1]
              s == c.states
          IN  /\ cycle_data = last.result
              /\ s[1] = [p |-> p1, v |-> Self.total_volume, T |-> T1]
              /\ s[2].v = Self.clearance_volume
              /\ s[2].p = Mul(p1, Pow(r, gamma))
              /\ Mul(s[2].T, r) = Mul(T1, Pow(r, gamma))
              /\ s[3].p = s[2].p
              /\ s[3].T = T3
              /\ Mul(s[3].v, s[2].T) = Mul(s[2].v, T3)
              /\ Div(s[3].v, s[2].v) = Div(T3, s[2].T)
              /\ s[4].v = s[1].v
              /\ Mul(s[4].p, Pow(s[4].v, gamma)) = Mul(s[3].p, Pow(s[3].v, gamma))
              /\ Mul(s[4].T, Pow(s[4].v, gamma - 1)) = Mul(T3, Pow(s[3].v, gamma - 1))
              /\ c.gamma = gamma
              /\ c.compression_ratio = r

C8_Witness ==
    /\ Returned("ideal_diesel_cycle")
    /\ ConsistentGeometry(Self)
    /\ Lt(CallT2, Float(last.args[3]))
    /\ Lt(One, CutoffRatio(last.result[1]))

(* C9: for every returned cycle and n_points >= 2 the expansion curve of   *)
(* generate_pv_diagram starts at state 3 (v3, p3) and ends at state 4      *)
(* (v4, p4).                                                               *)
C9_ExpansionEndpoints ==
    (Called("generate_pv_diagram") /\ last.args[1] >= 2)
       => /\ Returned("generate_pv_diagram")
          /\ LET n == last.args[1]
                 v_34 == last.result[1].expansion[1]
                 p_34 == last.result[1].expansion[2]
                 s == Cycle.states
             IN  /\ <<v_34[1], p_34[1]>> = <<s[3].v, s[3].p>>
                 /\ <<v_34[n], p_34[n]>> = <<s[4].v, s[4].p>>

C9_Witness ==
    /\ Returned("generate_pv_diagram")
    /\ last.args[1] >= 2
    /\ ConsistentGeometry(Self)
    /\ Lt(Cycle.states[2].v, Cycle.states[3].v)
    /\ Lt(Cycle.states[4].p, Cycle.states[3].p)
    /\ last.result[1].expansion[2][last.args[1]] = Cycle.states[4].p

(* A sequence that runs from start to end without turning back. *)
RunsFromTo(seq, start, end) ==
    /\ seq[1] = start
    /\ seq[Len(seq)] = end
    /\ \A i \in 1..(Len(seq) - 1) :
          IF Le(start, end) THEN Le(seq[i], seq[i + 1]) ELSE Le(seq[i + 1], seq[i])

AllEqual(seq, value) == \A i \in 1..Len(seq) : seq[i] = value

(* C10: for n_points >= 2 generate_pv_diagram returns exactly the four     *)
(* curves compression, heat_addition, expansion and heat_rejection, each a *)
(* volume and a pressure sequence of length n_points in traversal order:   *)
(* compression volumes from v1 down to v2, heat-addition volumes from v2   *)
(* to v3 at pressure p2, expansion volumes from v3 to v4, heat rejection   *)
(* at volume v4 with pressures from p4 to p1.                              *)
C10_FourOrderedCurves ==
    (Called("generate_pv_diagram") /\ last.args[1] >= 2)
       => /\ Returned("generate_pv_diagram")
          /\ LET n == last.args[1]
                 pv == last.result[1]
                 s == Cycle.states
             IN  /\ DOMAIN pv = {"compression", "heat_addition", "expansion",
                                 "heat_rejection"}
                 /\ \A k \in DOMAIN pv :
                       Len(pv[k]) = 2 /\ Len(pv[k][1]) = n /\ Len(pv[k][2]) = n
                 /\ RunsFromTo(pv.compression[1], s[1].v, s[2].v)
                 /\ ConsistentGeometry(Self) => Lt(s[2].v, s[1].v)
                 /\ RunsFromTo(pv.heat_addition[1], s[2].v, s[3].v)
                 /\ AllEqual(pv.heat_addition[2], s[2].p)
                 /\ RunsFromTo(pv.expansion[1], s[3].v, s[4].v)
                 /\ AllEqual(pv.heat_rejection[1], s[4].v)
                 /\ RunsFromTo(pv.heat_rejection[2], s[4].p, s[1].p)

C10_Witness ==
    /\ Returned("generate_pv_diagram")
    /\ last.args[1] >= 3
    /\ ConsistentGeometry(Self)
    /\ Lt(Cycle.states[2].v, Cycle.states[3].v)
    /\ Lt(Cycle.states[3].v, Cycle.states[4].v)
    /\ Lt(last.result[1].compression[1][2], Cycle.states[1].v)
    /\ Lt(Cycle.states[2].v, last.result[1].compression[1][2])

---------------------------------------------------------------------------
(* C11 *)

(* eta * gamma * (rho - 1) * r^(gamma-1)                                   *)
(*     = gamma * (rho - 1) * r^(gamma-1) - (rho^gamma - 1),                *)
(* the Diesel efficiency formula cleared of its fractions.                 *)
IsDieselEfficiency(eta, r, rho, gamma) ==
    LET scale == Mul(Mul(Float(gamma), Sub(rho, One)), Pow(r, gamma - 1))
    IN  Mul(eta, scale) = Sub(scale, Sub(Pow(rho, gamma), One))

EfficiencyCase ==
    /\ Returned("calculate_efficiency")
    /\ Lt(One, Self.compression_ratio)
    /\ Cycle.gamma > 1
    /\ Lt(One, CutoffRatio(Cycle))

(* C11 as stated: for every cycle with r > 1, gamma > 1 and rho = v3/v2 > 1 *)
(* calculate_efficiency returns the Diesel efficiency formula's value and   *)
(* that value lies strictly between 0 and 1.                                *)
C11_EfficiencyInUnitInterval ==
    EfficiencyCase /\ ConsistentGeometry(Self) =>
        /\ IsDieselEfficiency(last.result[1], Self.compression_ratio,
                              CutoffRatio(Cycle), Cycle.gamma)
        /\ Lt(Zero, last.result[1])
        /\ Lt(last.result[1], One)

---------------------------------------------------------------------------
(* C12 *)

(* The state set a successful ideal_diesel_cycle call returns carries the  *)
(* conditions of that call.                                                *)
StateSetOfCall(call) ==
    /\ call.result[1].states[1].p = Float(call.args[1])
    /\ call.result[1].states[1].T = Float(call.args[2])
    /\ call.result[1].states[3].T = Float(call.args[3])
    /\ call.result[1].gamma = call.args[4]

C12_Frame ==
    /\ sim # <<>> => sim' = sim
    /\ cycle_data # <<>> => cycle_data' = cycle_data
    /\ last'.op = "ideal_diesel_cycle" /\ last'.error = "" => StateSetOfCall(last')

(* C12: once the simulator is constructed no operation, returning or       *)
(* raising, changes any of its fields; a state set that was returned is    *)
(* never changed by generate_pv_diagram, calculate_efficiency or a further *)
(* ideal_diesel_cycle call; and each returning ideal_diesel_cycle call     *)
(* yields the state set of its own arguments.                              *)
C12_NothingMutated == [][C12_Frame]_vars

C12_Witness ==
    /\ Returned("ideal_diesel_cycle")
    /\ cycle_data # <<>>
    /\ last.result # cycle_data
    /\ last.result[1].states[3].T # Cycle.states[3].T

---------------------------------------------------------------------------
(* C13 *)

Script == script[1]

InWindow(v, v3) == Lt(Zero, Sub(v, v3)) /\ Lt(Sub(v, v3), SearchTolerance)

(* The k-th iteration examined the k-th angle after 0 and its volume. *)
ExaminedInOrder ==
    \A k \in 1..Len(Script.examined) :
       /\ Script.examined[k][1] = AngleZero + k
       /\ Script.examined[k][2] =
             volume(Script.d, Script.s, Script.l, Float(Script.r), AngleZero + k)

SearchProgress ==
    /\ Script.pc = "search" /\ Script.examined = <<>> => Script.theta = AngleZero
    /\ Script.pc \in {"search", "done"} =>
          /\ ExaminedInOrder
          /\ Script.theta = AngleZero + Len(Script.examined)
          /\ \A k \in 1..(Len(Script.examined) - 1) :
                /\ Script.examined[k][1] < AnglePi
                /\ ~InWindow(Script.examined[k][2], Script.points[1].v3)

SearchExited ==
    Script.pc = "done" =>
       LET n == Len(Script.examined)
       IN  /\ n >= 1
           /\ Script.v_theta = <<Script.examined[n][2]>>
           /\ Script.exit = "break" =>
                 /\ Lt(Script.points[1].v3, Script.v_theta[1])
                 /\ Lt(Sub(Script.v_theta[1], Script.points[1].v3), SearchTolerance)
           /\ Script.exit = "condition" =>
                 /\ ~InWindow(Script.examined[n][2], Script.points[1].v3)
                 /\ Script.theta >= AnglePi
           /\ Script.exit \in {"break", "condition"}

(* C13: the search loop of the script terminates; theta starts at 0 and    *)
(* advances by one step per iteration; the loop is left at the first step  *)
(* whose volume lies in the window 0 < volume(theta) - v3 < 0.001, or, if  *)
(* no step does, at the first theta >= pi; when it is left by the window,  *)
(* volume(theta) exceeds v3 by less than the tolerance and no earlier step *)
(* was inside the window.                                                  *)
C13_SearchTerminates ==
    /\ <>(Script.pc = "done")
    /\ [](SearchProgress /\ SearchExited)

C13_Witness ==
    /\ Script.pc = "done"
    /\ Script.exit = "break"
    /\ Len(Script.examined) >= 3
    /\ Script.theta < AnglePi

---------------------------------------------------------------------------
(* C14 *)

(* The first and the last (volume, pressure) sample of a curve. *)
FirstSample(curve) == <<curve[1][1], curve[2][1]>>

LastSample(curve) == <<curve[1][Len(curve[1])], curve[2][Len(curve[2])]>>

StatePoint(state) == <<state.v, state.p>>

(* C14: for a returned cycle and n_points >= 2 the four curves form a       *)
(* closed loop through the state points: compression runs from (v1, p1) to *)
(* (v2, p2), heat addition from (v2, p2) to (v3, p3), expansion ends at    *)
(* (v4, p4), heat rejection runs from (v4, p4) to (v1, p1), and the last   *)
(* sample of each curve is the first sample of the next.                   *)
C14_ClosedLoop ==
    Returned("generate_pv_diagram") /\ last.args[1] >= 2 =>
        LET pv == last.result[1]
            states == Cycle.states
        IN  /\ FirstSample(pv.compression) = StatePoint(states[1])
            /\ LastSample(pv.compression) = StatePoint(states[2])
            /\ FirstSample(pv.heat_addition) = StatePoint(states[2])
            /\ LastSample(pv.heat_addition) = StatePoint(states[3])
            /\ LastSample(pv.expansion) = StatePoint(states[4])
            /\ FirstSample(pv.heat_rejection) = StatePoint(states[4])
            /\ LastSample(pv.heat_rejection) = StatePoint(states[1])
            /\ LastSample(pv.compression) = FirstSample(pv.heat_addition)
            /\ LastSample(pv.heat_addition) = FirstSample(pv.expansion)
            /\ LastSample(pv.expansion) = FirstSample(pv.heat_rejection)
            /\ LastSample(pv.heat_rejection) = FirstSample(pv.compression)

C14_Witness ==
    /\ Returned("generate_pv_diagram")
    /\ last.args[1] >= 2
    /\ ConsistentGeometry(Self)
    /\ Lt(Cycle.states[2].v, Cycle.states[3].v)
    /\ Lt(Cycle.states[3].v, Cycle.states[4].v)
    /\ Lt(Cycle.states[4].p, Cycle.states[3].p)
    /\ LastSample(last.result[1].compression) # FirstSample(last.result[1].compression)
    /\ LastSample(last.result[1].heat_rejection) = FirstSample(last.result[1].compression)

---------------------------------------------------------------------------
(* C15 *)

ScriptPoints == Script.points[1]

StatePointsAgree ==
    Script.pc # "inputs" /\ Returned("ideal_diesel_cycle") =>
        LET states == last.result[1].states
        IN  /\ ScriptPoints.v1 = states[1].v
            /\ ScriptPoints.v2 = states[2].v
            /\ ScriptPoints.p2 = states[2].p
            /\ ScriptPoints.t2 = states[2].T
            /\ ScriptPoints.p3 = states[3].p
            /\ ScriptPoints.v3 = states[3].v
            /\ ScriptPoints.v4 = states[4].v
            /\ ScriptPoints.p4 = states[4].p

DeadCentreVolumesAgree ==
    Returned("instantaneous_volume") /\ last.args[1] \in {AngleZero, AnglePi} =>
        /\ volume(Script.d, Script.s, Script.l, Float(Script.r), last.args[1])
              = last.result[1]
        /\ last.args[1] = AngleZero => last.result[1] = Self.clearance_volume
        /\ last.args[1] = AnglePi => last.result[1] = Self.total_volume

(* C15: run with the same bore, stroke, compression ratio, p1, T1, T3 and   *)
(* gamma, the script's v1, v2, p2, t2, p3, v3, v4 and p4 equal the state    *)
(* values ideal_diesel_cycle returns, and volume(d, s, l, r, theta) equals  *)
(* instantaneous_volume(theta) at theta = 0, the clearance volume, and at   *)
(* theta = pi, the total volume.                                            *)
C15_SimulatorsAgree == StatePointsAgree /\ DeadCentreVolumesAgree

C15_Witness ==
    /\ Script.pc # "inputs"
    /\ Returned("ideal_diesel_cycle")
    /\ Lt(ScriptPoints.v2, ScriptPoints.v3)
    /\ Lt(ScriptPoints.v3, ScriptPoints.v4)
    /\ ScriptPoints.p4 = last.result[1].states[4].p

====
